---- MODULE Spec2Model ----
(***************************************************************************)
(* The QoS container manager of the kubelet (package cm): Start bootstraps *)
(* the Burstable and BestEffort cgroups under the root cgroup, and         *)
(* UpdateCgroups runs one lock-protected, two-phase reconciliation pass.   *)
(* The cgroup driver (CgroupManager) and the two accessors (activePods,    *)
(* getNodeAllocatable) are external: every call to them draws its result   *)
(* from a small set.                                                       *)
(***************************************************************************)
EXTENDS Integers, Sequences, FiniteSets, TLC

\* ---------------------------------------------------------------- bounds
\* longest active-pod list the activePods accessor returns
MaxPods == 2
\* number of goroutines calling UpdateCgroups directly, besides the timer
NumCallers == 1

\* ------------------------------------------------------------- constants
\* the platform minimum of cpu.shares ("best effort is always 2 shares")
MinShares == 2

\* ------------------------------------------------------- optional values
\* a nil pointer / an absent map entry is <<>>, a set value v is <<v>>
Nil == <<>>
Some(v) == <<v>>
Val(o) == o[1]

\* Go's integer division truncates toward zero
GoDiv(a, b) ==
    IF a >= 0 THEN a \div b ELSE -((-a) \div b)

\* -------------------------------------------------------------- QoS tiers
Guaranteed == "Guaranteed"
Burstable == "Burstable"
BestEffort == "BestEffort"

\* the keys of the qosConfigs map built by UpdateCgroups
ManagedTiers == {Burstable, BestEffort}

\* the qosClasses array of Start, in its order
qosClasses == <<Burstable, BestEffort>>

\* ----------------------------------------------------------- cgroup paths
\* a path is the sequence of its components; path.Join appends one
PathJoin(p, name) == Append(p, name)

\* m.cgroupRoot, set at construction
cgroupRoot == <<"kubepods">>

\* QOSContainersInfo{} before Start: every path is the empty string
ZeroInfo ==
    [Guaranteed |-> <<>>, Burstable |-> <<>>, BestEffort |-> <<>>]

\* a Start that gives Guaranteed a child path of its own
StartInfoGuaranteedChild(root) ==
    [Guaranteed |-> PathJoin(root, Guaranteed),
     Burstable  |-> PathJoin(root, Burstable),
     BestEffort |-> PathJoin(root, BestEffort)]

\* the QOSContainersInfo that Start stores
StartInfo(root) ==
    [Guaranteed |-> root,
     Burstable  |-> PathJoin(root, Burstable),
     BestEffort |-> PathJoin(root, BestEffort)]

\* ------------------------------------------------------- resource configs
\* &ResourceConfig{}: no field set
EmptyResourceConfig == [CpuShares |-> Nil, Memory |-> Nil]

\* the ResourceConfig Start builds for a tier
StartResourceParameters(qosClass) ==
    IF qosClass = BestEffort
    THEN [CpuShares |-> Some(MinShares), Memory |-> Nil]
    ELSE EmptyResourceConfig

\* a qosConfigs whose Burstable entry names the Guaranteed container
NewQosConfigsOnRoot(info) ==
    [t \in ManagedTiers |->
        [Name |-> IF t = Burstable THEN info.Guaranteed ELSE info.BestEffort,
         ResourceParameters |-> EmptyResourceConfig]]

\* the qosConfigs map UpdateCgroups builds from m.qosContainersInfo
NewQosConfigs(info) ==
    [t \in ManagedTiers |->
        [Name |-> IF t = Burstable THEN info.Burstable ELSE info.BestEffort,
         ResourceParameters |-> EmptyResourceConfig]]

\* the value of the per-invocation local while no invocation is running
NoConfigs == NewQosConfigs(ZeroInfo)

\* ------------------------------------------------------------------- pods
\* A pod is what the manager reads of it: the class qos.GetPodQOS gives,
\* the requests v1.PodRequestsAndLimits gives (each present or not), and
\* whether PodRequestsAndLimits fails for it.
GPod    == [qos |-> Guaranteed, cpu |-> Some(500), memory |-> Some(3), err |-> FALSE]
GPodErr == [qos |-> Guaranteed, cpu |-> Nil, memory |-> Nil, err |-> TRUE]
BPod    == [qos |-> Burstable, cpu |-> Some(3), memory |-> Some(3), err |-> FALSE]
BPodErr == [qos |-> Burstable, cpu |-> Nil, memory |-> Nil, err |-> TRUE]
BEPod   == [qos |-> BestEffort, cpu |-> Nil, memory |-> Nil, err |-> FALSE]

PodKinds == {GPod, GPodErr, BPod, BPodErr, BEPod}

\* the lists the activePods accessor may return
Populations ==
    UNION {[1..n -> PodKinds] : n \in 0..MaxPods}

\* the ResourceList values the getNodeAllocatable accessor may return,
\* reduced to its memory entry: absent, zero, or a capacity
Allocatables == {Nil, Some(0), Some(10)}

\* the memory usage GetResourceStats may report
Usages == {8}

\* m.qosReserved: empty, or Memory -> percentage
ReservedMaps == {Nil, Some(0), Some(50), Some(100)}

\* ---------------------------------------------------------------- processes
\* the goroutine Start launches with wait.Until
Timer == 0
\* the goroutines that call UpdateCgroups directly
Callers == 1..NumCallers
Procs == {Timer} \cup Callers

\* ------------------------------------------------------ allocation calculator
\* MilliCPUToShares: milli-CPU to cpu.shares, 1024 shares per 1000 milli-CPU
MilliCPUToShares(milliCPU) ==
    GoDiv(milliCPU * 1024, 1000)

\* a loop that leaves out the BestEffort pods only
SkippedForCPUBestEffortOnly(qosClass) == qosClass = BestEffort

\* the pods setCPUCgroupConfig passes over ("we only care about the
\* burstable qos tier")
SkippedForCPU(qosClass) == qosClass # Burstable

\* the loop of setCPUCgroupConfig over pods[i..]: the sum of the CPU requests
\* of the Burstable pods, or the error of the first one that has one
RECURSIVE BurstableCPULoop(_, _, _)
BurstableCPULoop(pods, i, burstablePodCPURequest) ==
    IF i > Len(pods)
    THEN [err |-> FALSE, sum |-> burstablePodCPURequest]
    ELSE IF SkippedForCPU(pods[i].qos)
    THEN BurstableCPULoop(pods, i + 1, burstablePodCPURequest)
    ELSE IF pods[i].err
    THEN [err |-> TRUE, sum |-> burstablePodCPURequest]
    ELSE IF pods[i].cpu # Nil
    THEN BurstableCPULoop(pods, i + 1, burstablePodCPURequest + Val(pods[i].cpu))
    ELSE BurstableCPULoop(pods, i + 1, burstablePodCPURequest)

\* the clamp of the Burstable shares
ClampShares(burstableCPUShares) ==
    IF burstableCPUShares < MinShares THEN MinShares ELSE burstableCPUShares

\* a BestEffort config whose CpuShares is left unset
BestEffortCPUSharesUnset == Nil

\* the CpuShares setCPUCgroupConfig gives the BestEffort config
BestEffortCPUShares == Some(MinShares)

SetCpuShares(configs, t, shares) ==
    [configs EXCEPT ![t].ResourceParameters.CpuShares = shares]

SetMemory(configs, t, limit) ==
    [configs EXCEPT ![t].ResourceParameters.Memory = limit]

\* a setCPUCgroupConfig that goes on after the error
CPUErrorDropped(err) == FALSE

\* whether setCPUCgroupConfig returns the error of PodRequestsAndLimits
CPUErrorReturned(err) == err

\* setCPUCgroupConfig: the error it returns and the configs it leaves
setCPUCgroupConfig(configs, pods) ==
    LET r == BurstableCPULoop(pods, 1, 0)
    IN  IF CPUErrorReturned(r.err)
        THEN [err |-> TRUE, configs |-> configs]
        ELSE [err |-> FALSE,
              configs |->
                SetCpuShares(
                    SetCpuShares(configs, BestEffort, BestEffortCPUShares),
                    Burstable,
                    Some(ClampShares(MilliCPUToShares(r.sum))))]

\* the loop of setMemoryReserve over pods[i..]: the qosMemoryRequests map, or
\* the error of the first pod outside BestEffort that has one
RECURSIVE MemoryRequestLoop(_, _, _)
MemoryRequestLoop(pods, i, qosMemoryRequests) ==
    IF i > Len(pods)
    THEN [err |-> FALSE, requests |-> qosMemoryRequests]
    ELSE IF pods[i].qos = BestEffort
    THEN MemoryRequestLoop(pods, i + 1, qosMemoryRequests)
    ELSE IF pods[i].err
    THEN [err |-> TRUE, requests |-> qosMemoryRequests]
    ELSE MemoryRequestLoop(pods, i + 1,
            [qosMemoryRequests EXCEPT ![pods[i].qos] =
                @ + (IF pods[i].memory # Nil THEN Val(pods[i].memory) ELSE 0)])

\* a Burstable limit whose reserved share is rounded up
burstableLimitRoundedUp(allocatable, requests, percentReserve) ==
    allocatable - ((requests[Guaranteed] * percentReserve + 99) \div 100)

\* the two limits setMemoryReserve calculates
burstableLimit(allocatable, requests, percentReserve) ==
    allocatable - GoDiv(requests[Guaranteed] * percentReserve, 100)

bestEffortLimit(allocatable, requests, percentReserve) ==
    burstableLimit(allocatable, requests, percentReserve)
        - GoDiv(requests[Burstable] * percentReserve, 100)

\* whether setMemoryReserve goes on to ask for the node allocatable
ReadsAllocatable(pods) ==
    ~MemoryRequestLoop(pods, 1, [c \in {Guaranteed, Burstable} |-> 0]).err

\* a check of the allocatable that lets a zero through
AllocatablePresent(resources) == resources # Nil

\* lines 197-206: the memory entry is there and its value is not 0
AllocatableUsable(resources) ==
    IF resources = Nil THEN FALSE ELSE Val(resources) # 0

\* setMemoryReserve: the configs it leaves; resources is the memory entry of
\* the list getNodeAllocatable returns
setMemoryReserve(configs, percentReserve, pods, resources) ==
    LET r == MemoryRequestLoop(pods, 1, [c \in {Guaranteed, Burstable} |-> 0])
    IN  IF r.err THEN configs
        ELSE IF ~AllocatableUsable(resources) THEN configs
        ELSE SetMemory(
                SetMemory(configs, Burstable,
                    Some(burstableLimit(Val(resources), r.requests, percentReserve))),
                BestEffort,
                Some(bestEffortLimit(Val(resources), r.requests, percentReserve)))

\* a retry that takes the usage as the target whenever a target is set
OverLimitOrNot(memory, usage) == memory # Nil

\* whether retrySetMemoryReserve replaces a tier's target by the usage
OverLimit(memory, usage) ==
    memory # Nil /\ usage > Val(memory)

\* a retry that drops the target of the tier whose read failed
retryOnStatsErrorUnsets(configs, t) ==
    SetMemory(configs, t, Nil)

\* lines 228-231: GetResourceStats failed for tier t; the function returns
\* and the configs stay as they are
retryOnStatsError(configs, t) == configs

\* one iteration of the loop of retrySetMemoryReserve, GetResourceStats
\* having reported usage for tier t
retrySetMemoryReserveStep(configs, t, usage) ==
    IF OverLimit(configs[t].ResourceParameters.Memory, usage)
    THEN SetMemory(configs, t, Some(usage))
    ELSE configs

\* ------------------------------------------------------------------- state
VARIABLES
    cgroupsPerQOS,      \* nodeConfig.CgroupsPerQOS, which selects the variant
    qosReserved,        \* m.qosReserved: Nil, or Some(percentage) for Memory
    qosContainersInfo,  \* m.qosContainersInfo
    accessors,          \* m.getNodeAllocatable and m.activePods are stored
    locked,             \* the sync.Mutex embedded in the manager
    loopStarted,        \* the wait.Until goroutine has been launched
    exists,             \* driver: the cgroup paths that exist
    inflight,           \* driver: Update calls of passes entered, not returned
    startPC,            \* Start: "init", "loop", "store", "done"
    startIdx,           \* Start: index into qosClasses
    startRet,           \* Start: "none", "nil", "err"
    pc,                 \* UpdateCgroups, per goroutine: where it stands
    qosConfigs,         \* UpdateCgroups, per goroutine: the local qosConfigs
    todo,               \* per goroutine: keys the running range loop has left
    updateSuccess,      \* per goroutine: the local updateSuccess
    ret,                \* what the latest pass returned, "none" while it runs
    log,                \* driver calls of Start or of the latest pass
    ran,                \* functions the latest pass has entered
    lastPods,           \* what activePods returned last, until the pass writes
    nodeAllocatable     \* the node allocatable memory setMemoryReserve is given

vars ==
    <<cgroupsPerQOS, qosReserved, qosContainersInfo, accessors, locked, loopStarted, exists,
      inflight, startPC, startIdx, startRet, pc, qosConfigs, todo,
      updateSuccess, ret, log, ran, lastPods, nodeAllocatable>>

managerVars ==
    <<cgroupsPerQOS, qosReserved, qosContainersInfo, accessors, loopStarted>>
startVars == <<startPC, startIdx, startRet>>
historyVars == <<ran, lastPods, nodeAllocatable>>

\* a constructor that returns the real manager whatever the flag
UsesNoopNever(flag) == FALSE

\* lines 57-61: NewQOSContainerManager returns the no-op manager when
\* CgroupsPerQOS is off
UsesNoop(flag) == ~flag

\* the cgroup trees Start may find: children exist only under a root
InitialTrees ==
    {{}} \cup {{cgroupRoot} \cup {PathJoin(cgroupRoot, t) : t \in S} :
                    S \in SUBSET ManagedTiers}

\* NewQOSContainerManager has returned one of the two variants; Start has
\* not been called
Init ==
    /\ cgroupsPerQOS \in BOOLEAN
    /\ qosReserved \in ReservedMaps
    /\ qosContainersInfo = ZeroInfo
    /\ accessors = FALSE
    /\ locked = FALSE
    /\ loopStarted = FALSE
    /\ exists \in InitialTrees
    /\ inflight = 0
    /\ startPC = "init"
    /\ startIdx = 0
    /\ startRet = "none"
    /\ pc = [p \in Procs |-> "idle"]
    /\ qosConfigs = [p \in Procs |-> NoConfigs]
    /\ todo = [p \in Procs |-> {}]
    /\ updateSuccess = [p \in Procs |-> TRUE]
    /\ ret = "none"
    /\ log = <<>>
    /\ ran = {}
    /\ lastPods = Nil
    /\ nodeAllocatable = Nil

\* ------------------------------------------------------------ driver calls
\* a record of one call to the cgroup driver; phase 0 is Start
Call(op, name, params, res, usage, phase) ==
    [op |-> op, name |-> name, params |-> params, res |-> res,
     usage |-> usage, phase |-> phase]

\* the log with the result of its last, pending call filled in
Returned(l, res) ==
    [l EXCEPT ![Len(l)].res = res]

DriverResults == {"ok", "err"}

\* --------------------------------------------------------------------- Start
\* a Start that takes the root for granted
RootAssumed(tree, root) == TRUE

\* cm.Exists(rootContainer)
RootExists(tree, root) == root \in tree

\* Start, lines 76-80: the root check
StartRoot ==
    /\ ~UsesNoop(cgroupsPerQOS)
    /\ startPC = "init"
    /\ IF RootExists(exists, cgroupRoot)
       THEN /\ log' = Append(log, Call("Exists", cgroupRoot, EmptyResourceConfig, "true", Nil, 0))
            /\ startPC' = "loop"
            /\ startIdx' = 1
            /\ startRet' = startRet
       ELSE /\ log' = Append(log, Call("Exists", cgroupRoot, EmptyResourceConfig, "false", Nil, 0))
            /\ startPC' = "done"
            /\ startIdx' = startIdx
            /\ startRet' = "err"
    /\ UNCHANGED <<managerVars, locked, exists, inflight, pc, qosConfigs, todo,
                   updateSuccess, ret, historyVars>>

\* a Start that creates the tier whether or not it exists
StartWriteCreate(found) == "Create"

\* the driver operation Start uses for a tier, found being what
\* cm.Exists(absoluteContainerName) returned
StartWrite(found) ==
    IF found THEN "Update" ELSE "Create"

\* a Start that goes on after a failed write
StartContinuesAlways(res) == TRUE

\* whether Start goes on after the write of a tier
StartContinues(res) == res = "ok"

\* Start, lines 87-113: one iteration of the loop over qosClasses
StartTier ==
    /\ startPC = "loop"
    /\ startIdx <= Len(qosClasses)
    /\ LET qosClass == qosClasses[startIdx]
           absoluteContainerName == PathJoin(cgroupRoot, qosClass)
           found == absoluteContainerName \in exists
           op == StartWrite(found)
       IN  \E res \in DriverResults :
            /\ log' = log \o
                 <<Call("Exists", absoluteContainerName, EmptyResourceConfig,
                        IF found THEN "true" ELSE "false", Nil, 0),
                   Call(op, absoluteContainerName,
                        StartResourceParameters(qosClass), res, Nil, 0)>>
            /\ exists' = IF op = "Create" /\ res = "ok"
                         THEN exists \cup {absoluteContainerName}
                         ELSE exists
            /\ IF StartContinues(res)
               THEN /\ startIdx' = startIdx + 1
                    /\ startPC' = IF startIdx = Len(qosClasses) THEN "store" ELSE "loop"
                    /\ startRet' = startRet
               ELSE /\ startIdx' = startIdx
                    /\ startPC' = "done"
                    /\ startRet' = "err"
    /\ UNCHANGED <<managerVars, locked, inflight, pc, qosConfigs, todo,
                   updateSuccess, ret, historyVars>>

\* Start, lines 114-132: store the names and the accessors, launch the loop
StartStore ==
    /\ startPC = "store"
    /\ qosContainersInfo' = StartInfo(cgroupRoot)
    /\ accessors' = TRUE
    /\ loopStarted' = TRUE
    /\ startPC' = "done"
    /\ startRet' = "nil"
    /\ UNCHANGED <<cgroupsPerQOS, qosReserved, locked, exists, inflight,
                   startIdx, pc, qosConfigs, todo, updateSuccess, ret, log,
                   historyVars>>

\* ------------------------------------------------------------- UpdateCgroups
\* what is left alone by every step of a pass
passFrame == <<managerVars, exists, startVars>>

\* a manager whose UpdateCgroups runs before Start is through
MayInvokeAnytime(p) == TRUE

\* who calls UpdateCgroups: the timer goroutine once Start has launched it,
\* the other callers once Start has returned the manager started
MayInvoke(p) ==
    IF p = Timer THEN loopStarted ELSE startRet = "nil"

\* a goroutine calls UpdateCgroups and reaches m.Lock()
Invoke(p) ==
    /\ ~UsesNoop(cgroupsPerQOS)
    /\ pc[p] = "idle"
    /\ MayInvoke(p)
    /\ pc' = [pc EXCEPT ![p] = "lock"]
    /\ UNCHANGED <<passFrame, locked, inflight, qosConfigs, todo,
                   updateSuccess, ret, log, historyVars>>

\* a Lock that returns whether or not the mutex is held
MutexFreeAlways(held) == TRUE

\* m.Lock() returns when the mutex is not held
MutexFree(held) == ~held

\* lines 247-259: the lock is taken and the local qosConfigs is built
Lock(p) ==
    /\ pc[p] = "lock"
    /\ MutexFree(locked)
    /\ locked' = TRUE
    /\ pc' = [pc EXCEPT ![p] = "cpu"]
    /\ qosConfigs' = [qosConfigs EXCEPT ![p] = NewQosConfigs(qosContainersInfo)]
    /\ todo' = [todo EXCEPT ![p] = {}]
    /\ updateSuccess' = [updateSuccess EXCEPT ![p] = TRUE]
    /\ log' = <<>>
    /\ ran' = {}
    /\ lastPods' = Nil
    /\ nodeAllocatable' = Nil
    /\ ret' = "none"
    /\ UNCHANGED <<passFrame, inflight>>

\* an Unlock that runs on the successful exit only
UnlockedOnSuccess(r) == r = "nil"

\* line 248: the Unlock is deferred, so it runs on every exit
Unlocked(r) == TRUE

\* UpdateCgroups returns r; the deferred m.Unlock() runs, the locals die
Return(p, r) ==
    /\ pc' = [pc EXCEPT ![p] = "idle"]
    /\ ret' = r
    /\ locked' = IF Unlocked(r) THEN FALSE ELSE locked
    /\ qosConfigs' = [qosConfigs EXCEPT ![p] = NoConfigs]
    /\ todo' = [todo EXCEPT ![p] = {}]
    /\ updateSuccess' = [updateSuccess EXCEPT ![p] = TRUE]

\* lines 261-264: setCPUCgroupConfig, and the return of its error
SetCPU(p) ==
    /\ pc[p] = "cpu"
    /\ \E pods \in Populations :
        LET r == setCPUCgroupConfig(qosConfigs[p], pods)
        IN  /\ lastPods' = Some(pods)
            /\ ran' = ran \cup {"setCPUCgroupConfig"}
            /\ IF r.err
               THEN Return(p, "err")
               ELSE /\ qosConfigs' = [qosConfigs EXCEPT ![p] = r.configs]
                    /\ pc' = [pc EXCEPT ![p] = "reserve"]
                    /\ UNCHANGED <<locked, todo, updateSuccess, ret>>
    /\ UNCHANGED <<passFrame, inflight, log, nodeAllocatable>>

\* lines 266-272: the loop over m.qosReserved, which calls setMemoryReserve
\* when Memory is a key, and the initialisation of updateSuccess
Reserve(p) ==
    /\ pc[p] = "reserve"
    /\ IF qosReserved = Nil
       THEN UNCHANGED <<qosConfigs, ran, nodeAllocatable>> /\ lastPods' = Nil
       ELSE \E pods \in Populations, resources \in Allocatables :
            /\ qosConfigs' = [qosConfigs EXCEPT ![p] =
                    setMemoryReserve(qosConfigs[p], Val(qosReserved), pods, resources)]
            /\ ran' = ran \cup {"setMemoryReserve"} \cup
                        (IF ReadsAllocatable(pods) THEN {"getNodeAllocatable"} ELSE {})
            /\ lastPods' = Some(pods)
            /\ nodeAllocatable' = Some(resources)
    /\ pc' = [pc EXCEPT ![p] = "phase1"]
    /\ todo' = [todo EXCEPT ![p] = ManagedTiers]
    /\ updateSuccess' = [updateSuccess EXCEPT ![p] = TRUE]
    /\ UNCHANGED <<passFrame, locked, inflight, ret, log>>

\* the driver is handed config t of the goroutine's qosConfigs
IssueUpdate(p, t, phase) ==
    /\ log' = Append(log, Call("Update", qosConfigs[p][t].Name,
                               qosConfigs[p][t].ResourceParameters, "pending", Nil, phase))
    /\ inflight' = inflight + 1
    /\ todo' = [todo EXCEPT ![p] = @ \ {t}]

\* line 274: phase 1 hands the driver the next config; a range over a Go map
\* visits the keys in any order
Phase1Update(p) ==
    /\ pc[p] = "phase1"
    /\ \E t \in todo[p] : IssueUpdate(p, t, 1)
    /\ pc' = [pc EXCEPT ![p] = "p1wait"]
    /\ lastPods' = Nil
    /\ UNCHANGED <<passFrame, locked, qosConfigs, updateSuccess, ret, ran, nodeAllocatable>>

\* updateSuccess after an Update of phase 1 returned res
AfterPhase1Update(success, res) ==
    success /\ res = "ok"

\* lines 274-277: the Update of phase 1 returns
Phase1Returns(p) ==
    /\ pc[p] = "p1wait"
    /\ \E res \in DriverResults :
        /\ log' = Returned(log, res)
        /\ updateSuccess' = [updateSuccess EXCEPT ![p] = AfterPhase1Update(@, res)]
    /\ inflight' = inflight - 1
    /\ pc' = [pc EXCEPT ![p] = "phase1"]
    /\ UNCHANGED <<passFrame, locked, qosConfigs, todo, ret, historyVars>>

\* a pass that goes into the retry whatever phase 1 did
Phase1SucceededNever(success) == FALSE

\* whether the pass ends after phase 1
Phase1Succeeded(success) == success

\* lines 279-292: after the loop of phase 1, return nil or go on to the retry
Phase1Done(p) ==
    /\ pc[p] = "phase1"
    /\ todo[p] = {}
    /\ IF Phase1Succeeded(updateSuccess[p])
       THEN Return(p, "nil") /\ ran' = ran
       ELSE /\ pc' = [pc EXCEPT ![p] = IF qosReserved = Nil THEN "phase2" ELSE "retry"]
            /\ todo' = [todo EXCEPT ![p] = ManagedTiers]
            /\ ran' = IF qosReserved = Nil THEN ran
                      ELSE ran \cup {"retrySetMemoryReserve"}
            /\ UNCHANGED <<locked, qosConfigs, updateSuccess, ret>>
    /\ UNCHANGED <<passFrame, inflight, log, lastPods, nodeAllocatable>>

\* lines 226-243: one iteration of the loop of retrySetMemoryReserve: the
\* GetResourceStats call for a remaining key, which fails and ends the
\* function, or reports a usage
RetryStats(p) ==
    /\ pc[p] = "retry"
    /\ \E t \in todo[p] :
        \/ /\ log' = Append(log, Call("GetResourceStats", qosConfigs[p][t].Name,
                                      EmptyResourceConfig, "err", Nil, 2))
           /\ pc' = [pc EXCEPT ![p] = "phase2"]
           /\ todo' = [todo EXCEPT ![p] = ManagedTiers]
           /\ qosConfigs' = [qosConfigs EXCEPT ![p] =
                                retryOnStatsError(qosConfigs[p], t)]
        \/ \E usage \in Usages :
           /\ log' = Append(log, Call("GetResourceStats", qosConfigs[p][t].Name,
                                      EmptyResourceConfig, "ok", Some(usage), 2))
           /\ qosConfigs' = [qosConfigs EXCEPT ![p] =
                                retrySetMemoryReserveStep(qosConfigs[p], t, usage)]
           /\ IF todo[p] = {t}
              THEN /\ pc' = [pc EXCEPT ![p] = "phase2"]
                   /\ todo' = [todo EXCEPT ![p] = ManagedTiers]
              ELSE /\ pc' = pc
                   /\ todo' = [todo EXCEPT ![p] = @ \ {t}]
    /\ UNCHANGED <<passFrame, locked, inflight, updateSuccess, ret, historyVars>>

\* line 295: phase 2 hands the driver the next config
Phase2Update(p) ==
    /\ pc[p] = "phase2"
    /\ \E t \in todo[p] : IssueUpdate(p, t, 2)
    /\ pc' = [pc EXCEPT ![p] = "p2wait"]
    /\ UNCHANGED <<passFrame, locked, qosConfigs, updateSuccess, ret, historyVars>>

\* a phase 2 that drops the error of its Updates
Phase2FailsNever(res) == FALSE

\* whether UpdateCgroups returns the error of an Update of phase 2
Phase2Fails(res) == res = "err"

\* lines 295-303: the Update of phase 2 returns; its error is returned at
\* once, and nil after the last one
Phase2Returns(p) ==
    /\ pc[p] = "p2wait"
    /\ inflight' = inflight - 1
    /\ \E res \in DriverResults :
        /\ log' = Returned(log, res)
        /\ IF Phase2Fails(res)
           THEN Return(p, "err")
           ELSE IF todo[p] = {}
           THEN Return(p, "nil")
           ELSE /\ pc' = [pc EXCEPT ![p] = "phase2"]
                /\ UNCHANGED <<locked, qosConfigs, todo, updateSuccess, ret>>
    /\ UNCHANGED <<passFrame, historyVars>>

\* ------------------------------------------------------- the no-op variant
\* lines 316-318: qosContainerManagerNoop.Start returns nil
NoopStart ==
    /\ UsesNoop(cgroupsPerQOS)
    /\ startPC' = "done"
    /\ startRet' = "nil"
    /\ UNCHANGED <<managerVars, locked, exists, inflight, startIdx, pc,
                   qosConfigs, todo, updateSuccess, ret, log, historyVars>>

\* lines 320-322: qosContainerManagerNoop.UpdateCgroups returns nil
NoopUpdateCgroups(p) ==
    /\ UsesNoop(cgroupsPerQOS)
    /\ pc[p] = "idle"
    /\ ret' = "nil"
    /\ UNCHANGED <<managerVars, startVars, locked, exists, inflight, pc,
                   qosConfigs, todo, updateSuccess, log, historyVars>>

\* lines 71-73 and 312-314: GetQOSContainersInfo of the variant in use
GetQOSContainersInfo ==
    IF UsesNoop(cgroupsPerQOS) THEN ZeroInfo ELSE qosContainersInfo

\* ----------------------------------------------------------- specification
Next ==
    \/ NoopStart
    \/ \E p \in Procs : NoopUpdateCgroups(p)
    \/ StartRoot
    \/ StartTier
    \/ StartStore
    \/ \E p \in Procs : Invoke(p)
    \/ \E p \in Procs : Lock(p)
    \/ \E p \in Procs : SetCPU(p)
    \/ \E p \in Procs : Reserve(p)
    \/ \E p \in Procs : Phase1Update(p)
    \/ \E p \in Procs : Phase1Returns(p)
    \/ \E p \in Procs : Phase1Done(p)
    \/ \E p \in Procs : RetryStats(p)
    \/ \E p \in Procs : Phase2Update(p)
    \/ \E p \in Procs : Phase2Returns(p)

Spec == Init /\ [][Next]_vars

\* a step of goroutine p inside UpdateCgroups, between its Lock and its
\* return: every driver and accessor call returns
PassStep(p) ==
    \/ SetCPU(p)
    \/ Reserve(p)
    \/ Phase1Update(p)
    \/ Phase1Returns(p)
    \/ Phase1Done(p)
    \/ RetryStats(p)
    \/ Phase2Update(p)
    \/ Phase2Returns(p)

\* lines 125-130: wait.Until with wait.NeverStop calls UpdateCgroups again
\* after every period, whatever the call returned; a goroutine inside
\* UpdateCgroups goes on running; m.Lock() does not starve a goroutine that
\* waits while the mutex is released again and again
Fairness ==
    /\ WF_vars(Invoke(Timer))
    /\ \A p \in Procs : WF_vars(PassStep(p))
    /\ \A p \in Procs : SF_vars(Lock(p))

\* the reserved-resource maps the progress of the loop is checked with:
\* Memory absent, and Memory reserved at a percentage that sets a limit
FairReservedMaps == {Nil, Some(50)}

FairInit ==
    /\ Init
    /\ qosReserved \in FairReservedMaps

FairSpec == FairInit /\ [][Next]_vars /\ Fairness

\* ------------------------------------------------------------------ notions
\* the goroutine is between its m.Lock() and its return
InPass(p) == pc[p] \notin {"idle", "lock"}

\* the latest pass has returned and no other has taken the lock since
PassDone == ret # "none"

\* the indices of the log's calls of one operation in one phase
Calls(op, phase) ==
    {i \in 1..Len(log) : log[i].op = op /\ log[i].phase = phase}

\* the indices of the log's calls of one operation in one phase on one tier
TierCalls(op, phase, t) ==
    {i \in Calls(op, phase) : log[i].name = PathJoin(cgroupRoot, t)}

\* the latest pass ended in setCPUCgroupConfig's error (only then does a
\* finished pass still hold the pods it was given)
CPUFailed ==
    PassDone /\ lastPods # Nil

\* ------------------------------------------------------------------------ C1
\* C1: passes are mutually exclusive and totally ordered: at most one
\* goroutine is between Lock and return, it holds the mutex, at most one
\* Update of a pass is in flight in the driver, and a call that has not
\* returned is the last one logged and belongs to the one running pass.
C1_MutualExclusion ==
    /\ Cardinality({p \in Procs : InPass(p)}) <= 1
    /\ \A p \in Procs : InPass(p) => locked
    /\ inflight <= 1
    /\ inflight = Cardinality({p \in Procs : pc[p] \in {"p1wait", "p2wait"}})
    /\ \A i \in 1..Len(log) :
        log[i].res = "pending" => i = Len(log) /\ inflight = 1

\* a pass has an Update in flight while the timer and a caller are both in
\* UpdateCgroups, the other one blocked on the lock
C1_Witness ==
    \E p, q \in Procs :
        /\ p # q
        /\ pc[p] = "p2wait"
        /\ pc[q] = "lock"
        /\ inflight = 1

\* ------------------------------------------------------------------------ C2
\* C2: when the CPU-share computation succeeded, UpdateCgroups returns an
\* error exactly if an Update of phase 1 failed and an Update attempted in
\* phase 2 failed; so a pass whose first Update (Burstable) failed, which saw
\* Burstable over its target, and whose retried Updates succeeded returns nil.
C2_ErrorIffBothPhasesFail ==
    (PassDone /\ ~CPUFailed) =>
        /\ ret = "err" <=>
            /\ \E i \in Calls("Update", 1) : log[i].res = "err"
            /\ \E i \in Calls("Update", 2) : log[i].res = "err"
        /\ ( /\ Len(log) > 0
             /\ log[1].name = PathJoin(cgroupRoot, Burstable)
             /\ log[1].res = "err"
             /\ Calls("Update", 2) # {}
             /\ \A i \in Calls("Update", 2) : log[i].res = "ok" )
           => ret = "nil"

\* scenario C: the first Update, for Burstable, failed; Burstable was seen
\* over the attempted target and retargeted to its usage; both retried
\* Updates succeeded and the pass returned nil
C2_Witness ==
    /\ PassDone
    /\ ret = "nil"
    /\ Len(log) > 0
    /\ log[1].op = "Update" /\ log[1].res = "err"
    /\ log[1].name = PathJoin(cgroupRoot, Burstable)
    /\ \E i \in TierCalls("GetResourceStats", 2, Burstable) :
        /\ log[1].params.Memory # Nil
        /\ log[i].usage # Nil
        /\ Val(log[i].usage) > Val(log[1].params.Memory)
        /\ \E j \in TierCalls("Update", 2, Burstable) :
            log[j].params.Memory = log[i].usage /\ log[j].res = "ok"
    /\ Cardinality(Calls("Update", 2)) = 2
    /\ \A i \in Calls("Update", 2) : log[i].res = "ok"

\* ------------------------------------------------------------------------ C3
\* the target the retry leaves for a tier seen at the given usage
Retargeted(target, usage) ==
    IF target # Nil /\ usage > Val(target) THEN Some(usage) ELSE target

\* the memory target tier t has after the read-back, given what phase 1
\* attempted and what GetResourceStats reported for it
C3_TargetFollowsUsage(t, memory) ==
    \A i \in TierCalls("Update", 1, t) :
        /\ log[i].params.Memory = Nil => memory = Nil
        /\ \A k \in TierCalls("GetResourceStats", 2, t) :
            log[k].res = "ok" =>
                memory = Retargeted(log[i].params.Memory, Val(log[k].usage))

\* C3: in phase 2 a managed tier whose usage was read keeps its phase-1
\* memory target if the usage is not above it and gets exactly the usage if
\* it is above; an unset target stays unset. This holds of the configs held
\* during phase 2 and of every config phase 2 hands the driver.
C3_RetryRetargets ==
    \A t \in ManagedTiers :
        /\ \A p \in Procs :
            pc[p] \in {"phase2", "p2wait"} =>
                C3_TargetFollowsUsage(t, qosConfigs[p][t].ResourceParameters.Memory)
        /\ \A j \in TierCalls("Update", 2, t) :
            C3_TargetFollowsUsage(t, log[j].params.Memory)

\* phase 2 has written both tiers: one was over its phase-1 target and is
\* written with the usage, the other was not and is written unchanged
C3_Witness ==
    \E t, u \in ManagedTiers :
        /\ t # u
        /\ \E i \in TierCalls("Update", 1, t), k \in TierCalls("GetResourceStats", 2, t),
              j \in TierCalls("Update", 2, t) :
            /\ log[i].params.Memory # Nil
            /\ log[k].res = "ok"
            /\ Val(log[k].usage) > Val(log[i].params.Memory)
            /\ log[j].params.Memory = log[k].usage
        /\ \E i \in TierCalls("Update", 1, u), k \in TierCalls("GetResourceStats", 2, u),
              j \in TierCalls("Update", 2, u) :
            /\ log[i].params.Memory # Nil
            /\ log[k].res = "ok"
            /\ Val(log[k].usage) < Val(log[i].params.Memory)
            /\ log[j].params.Memory = log[i].params.Memory

\* ------------------------------------------------------------------------ C4
\* the sum of the memory requests of the pods of one tier
RECURSIVE TierMemoryRequests(_, _)
TierMemoryRequests(pods, tier) ==
    IF pods = <<>> THEN 0
    ELSE (IF Head(pods).qos = tier /\ Head(pods).memory # Nil
          THEN Val(Head(pods).memory) ELSE 0)
         + TierMemoryRequests(Tail(pods), tier)

\* PodRequestsAndLimits succeeds for every Guaranteed and Burstable pod
QuantitiesDetermined(pods) ==
    \A i \in 1..Len(pods) : pods[i].qos = BestEffort \/ ~pods[i].err

\* setMemoryReserve has just returned in goroutine p's pass, Memory being
\* reserved and the node allocatable memory present and not zero
C4_Case(p) ==
    /\ pc[p] = "phase1"
    /\ lastPods # Nil
    /\ qosReserved # Nil
    /\ nodeAllocatable # Nil
    /\ Val(nodeAllocatable) # Nil
    /\ Val(Val(nodeAllocatable)) # 0

\* the limits of C4 for allocatable A, percentage P and the pods' requests
C4_Limits(p) ==
    LET A == Val(Val(nodeAllocatable))
        P == Val(qosReserved)
        G == TierMemoryRequests(Val(lastPods), Guaranteed)
        B == TierMemoryRequests(Val(lastPods), Burstable)
        bu == A - ((G * P) \div 100)
        be == bu - ((B * P) \div 100)
    IN  /\ qosConfigs[p][Burstable].ResourceParameters.Memory = Some(bu)
        /\ qosConfigs[p][BestEffort].ResourceParameters.Memory = Some(be)
        /\ be <= bu
        /\ bu <= A

RECURSIVE BurstableCPURequests(_)
BurstableCPURequests(pods) ==
    IF pods = <<>> THEN 0
    ELSE (IF Head(pods).qos = Burstable /\ Head(pods).cpu # Nil
          THEN Val(Head(pods).cpu) ELSE 0)
         + BurstableCPURequests(Tail(pods))

Max(a, b) == IF a >= b THEN a ELSE b

\* setCPUCgroupConfig has just returned without error in goroutine p's pass
C5_Case(p) ==
    pc[p] = "reserve" /\ lastPods # Nil

\* C5: the Burstable CPU-share target a pass computes is
\* max(MinShares, MilliCPUToShares(S)), S the sum of the CPU requests of the
\* Burstable pods alone, and is never below MinShares.
C5_BurstableShares ==
    \A p \in Procs :
        C5_Case(p) =>
            LET S == BurstableCPURequests(Val(lastPods))
                shares == qosConfigs[p][Burstable].ResourceParameters.CpuShares
            IN  /\ shares = Some(Max(MinShares, MilliCPUToShares(S)))
                /\ Val(shares) >= MinShares

\* the shares were computed from a Guaranteed and a Burstable pod and are
\* those of the Burstable pod's 3 milli-CPU alone
C5_Witness ==
    \E p \in Procs :
        /\ C5_Case(p)
        /\ \E i, j \in 1..Len(Val(lastPods)) :
            Val(lastPods)[i] = GPod /\ Val(lastPods)[j] = BPod
        /\ qosConfigs[p][Burstable].ResourceParameters.CpuShares = Some(3)

\* ------------------------------------------------------------------------ C6
\* C6: every config the manager hands the driver for the BestEffort cgroup,
\* in Start's Create or Update and in every Update of both phases of every
\* pass, carries CpuShares = MinShares.
C6_BestEffortMinShares ==
    \A i \in 1..Len(log) :
        ( /\ log[i].op \in {"Create", "Update"}
          /\ log[i].name = PathJoin(cgroupRoot, BestEffort) )
        => log[i].params.CpuShares = Some(MinShares)

\* after a failed phase 1, phase 2 has written BestEffort with MinShares in
\* a pass that gave Burstable more than MinShares
C6_Witness ==
    /\ \E i \in TierCalls("Update", 1, BestEffort) : log[i].res = "err"
    /\ \E i \in TierCalls("Update", 2, BestEffort) :
        log[i].params.CpuShares = Some(MinShares)
    /\ \E i \in TierCalls("Update", 2, Burstable) :
        Val(log[i].params.CpuShares) > MinShares

\* ------------------------------------------------------------------------ C7
\* getNodeAllocatable gave no memory entry, or one of zero, in the latest pass
C7_Case ==
    /\ "getNodeAllocatable" \in ran
    /\ nodeAllocatable \in {Some(Nil), Some(Some(0))}

\* C7: if the node allocatable memory is absent or zero, no config of the
\* pass has a memory limit, every config written to the driver carries its
\* CPU shares and no memory limit, both tiers are written, and the pass
\* returns no error when its phase-1 Updates succeed.
C7_NoAllocatableNoMemory ==
    C7_Case =>
        /\ \A p \in Procs, t \in ManagedTiers :
            InPass(p) => qosConfigs[p][t].ResourceParameters.Memory = Nil
        /\ \A i \in 1..Len(log) :
            log[i].op = "Update" =>
                log[i].params.Memory = Nil /\ log[i].params.CpuShares # Nil
        /\ PassDone => \A t \in ManagedTiers : TierCalls("Update", 1, t) # {}
        /\ (PassDone /\ \A i \in Calls("Update", 1) : log[i].res = "ok")
            => ret = "nil"

\* a pass that was given a zero allocatable has written both tiers, CPU
\* shares only, and returned nil
C7_Witness ==
    /\ C7_Case
    /\ nodeAllocatable = Some(Some(0))
    /\ PassDone
    /\ ret = "nil"
    /\ Cardinality(Calls("Update", 1)) = 2
    /\ \A i \in Calls("Update", 1) :
        log[i].params.Memory = Nil /\ log[i].params.CpuShares # Nil

\* ------------------------------------------------------------------------ C8
\* PodRequestsAndLimits fails for a Burstable pod
BurstableUndetermined(pods) ==
    \E i \in 1..Len(pods) : pods[i].qos = Burstable /\ pods[i].err

\* the latest pass has called setCPUCgroupConfig, and nothing since, with
\* pods of which a Burstable one has no determinable quantities
C8_Case ==
    /\ lastPods # Nil
    /\ "setMemoryReserve" \notin ran
    /\ BurstableUndetermined(Val(lastPods))

\* C8 as claimed: a failure of the CPU-share computation leaves the memory
\* reservation computation of the same pass to run.
C8_AsClaimed ==
    (CPUFailed /\ qosReserved # Nil) => "setMemoryReserve" \in ran

\* C8, amended: a failure of the CPU-share computation aborts the whole
\* pass: UpdateCgroups returns the error at once, the memory reservation
\* computation of that pass does not run and nothing is written.
C8_CPUFailureAbortsPass ==
    /\ C8_Case =>
        /\ PassDone
        /\ ret = "err"
        /\ \A p \in Procs : ~InPass(p)
    /\ CPUFailed =>
        /\ ret = "err"
        /\ ran = {"setCPUCgroupConfig"}
        /\ log = <<>>
        /\ nodeAllocatable = Nil

\* a pass of a manager that reserves memory has failed in setCPUCgroupConfig
C8_Witness ==
    /\ C8_Case
    /\ CPUFailed
    /\ qosReserved # Nil
    /\ ~locked

\* ------------------------------------------------------------------------ C9
\* the indices of Start's Create and Update calls on tier t
StartWrites(t) ==
    {i \in 1..Len(log) :
        /\ log[i].phase = 0
        /\ log[i].op \in {"Create", "Update"}
        /\ log[i].name = PathJoin(cgroupRoot, t)}

\* Start has returned after finding the root cgroup
StartDoneWithRoot ==
    /\ startPC = "done"
    /\ Len(log) > 0
    /\ log[1] = Call("Exists", cgroupRoot, EmptyResourceConfig, "true", Nil, 0)

\* the baseline config of a tier: MinShares for BestEffort, nothing else
Baseline(t) ==
    [CpuShares |-> IF t = BestEffort THEN Some(MinShares) ELSE Nil,
     Memory |-> Nil]

\* a write of Start on tier t follows an Exists on the same path, is a Create
\* if that said no and an Update if it said yes, and carries the baseline
C9_WriteMatchesExists(t, i) ==
    /\ i > 1
    /\ log[i - 1].op = "Exists"
    /\ log[i - 1].name = log[i].name
    /\ log[i].op = "Create" <=> log[i - 1].res = "false"
    /\ log[i].op = "Update" <=> log[i - 1].res = "true"
    /\ log[i].params = Baseline(t)

\* C9 as claimed: with the root present, Start issues exactly one write for
\* each of the two tiers.
C9_AsClaimed ==
    StartDoneWithRoot =>
        \A t \in ManagedTiers :
            /\ Cardinality(StartWrites(t)) = 1
            /\ \A i \in StartWrites(t) : C9_WriteMatchesExists(t, i)

\* C9, amended: with the root present, Start handles Burstable, then
\* BestEffort, and stops at the first write that fails: each tier it reaches
\* gets exactly one write, a Create if the path does not exist and an Update
\* if it does, with the baseline config; Burstable is always reached and
\* BestEffort only after Burstable's write succeeded; Start returns nil
\* exactly if both writes were issued and succeeded.
C9_StartWrites ==
    /\ \A t \in ManagedTiers :
        /\ Cardinality(StartWrites(t)) <= 1
        /\ \A i \in StartWrites(t) : C9_WriteMatchesExists(t, i)
    /\ \A i \in StartWrites(BestEffort) :
        \E j \in StartWrites(Burstable) : j < i /\ log[j].res = "ok"
    /\ StartDoneWithRoot =>
        /\ Cardinality(StartWrites(Burstable)) = 1
        /\ (\A j \in StartWrites(Burstable) : log[j].res = "ok")
            <=> Cardinality(StartWrites(BestEffort)) = 1
        /\ startRet = "nil" <=>
            \A t \in ManagedTiers :
                \E i \in StartWrites(t) : log[i].res = "ok"

\* scenario A: the root was there and no tier; Start created Burstable,
\* then BestEffort with MinShares, and returned nil
C9_Witness ==
    /\ StartDoneWithRoot
    /\ startRet = "nil"
    /\ Len(log) = 5
    /\ log[3] = Call("Create", PathJoin(cgroupRoot, Burstable),
                     EmptyResourceConfig, "ok", Nil, 0)
    /\ log[5] = Call("Create", PathJoin(cgroupRoot, BestEffort),
                     [CpuShares |-> Some(MinShares), Memory |-> Nil], "ok", Nil, 0)
    /\ PathJoin(cgroupRoot, Burstable) \in exists
    /\ PathJoin(cgroupRoot, BestEffort) \in exists

\* ----------------------------------------------------------------------- C10
\* Start of the enforcing manager has returned and the root cgroup does
\* not exist
C10_Case ==
    cgroupsPerQOS /\ startPC = "done" /\ cgroupRoot \notin exists

\* C10: without the root cgroup Start returns an error, has issued no Create
\* and no Update, leaves QOSContainersInfo unpopulated and launches no
\* reconciliation loop, so no pass ever runs.
C10_NoRootStartFails ==
    C10_Case =>
        /\ startRet = "err"
        /\ \A i \in 1..Len(log) : log[i].op = "Exists"
        /\ exists = {}
        /\ qosContainersInfo = ZeroInfo
        /\ ~accessors
        /\ ~loopStarted
        /\ \A p \in Procs : pc[p] = "idle"
        /\ ret = "none"

\* Start has returned its error after the one Exists on the absent root
C10_Witness ==
    /\ C10_Case
    /\ startRet = "err"
    /\ log = <<Call("Exists", cgroupRoot, EmptyResourceConfig, "false", Nil, 0)>>

\* ----------------------------------------------------------------------- C11
\* the indices of Start's Create and Update calls that failed
FailedStartWrites ==
    {i \in 1..Len(log) :
        /\ log[i].phase = 0
        /\ log[i].op \in {"Create", "Update"}
        /\ log[i].res = "err"}

\* C11: a Create or Update of a tier that fails during Start ends Start at
\* once with an error: it is the last driver call Start makes (a later tier
\* is not touched), QOSContainersInfo and the accessors are not stored, the
\* reconciliation loop is not launched, and no pass ever starts.
C11_BootstrapFailureFatal ==
    \A i \in FailedStartWrites :
        /\ i = Len(log)
        /\ startPC = "done"
        /\ startRet = "err"
        /\ qosContainersInfo = ZeroInfo
        /\ ~accessors
        /\ ~loopStarted
        /\ \A p \in Procs : pc[p] = "idle"
        /\ ret = "none"

\* the Update of the existing Burstable cgroup failed and Start returned its
\* error without a call on BestEffort
C11_Witness ==
    /\ FailedStartWrites = {3}
    /\ log[3].op = "Update"
    /\ log[3].name = PathJoin(cgroupRoot, Burstable)
    /\ startRet = "err"
    /\ \A i \in 1..Len(log) : log[i].name # PathJoin(cgroupRoot, BestEffort)

\* ----------------------------------------------------------------------- C12
\* Start of the real manager has returned nil
Started ==
    ~UsesNoop(cgroupsPerQOS) /\ startRet = "nil"

\* C12: once Start has returned nil, GetQOSContainersInfo gives the root for
\* Guaranteed and the two child paths for Burstable and BestEffort, in every
\* state from then on, whatever passes have run, failed or are running.
C12_InfoFixedAfterStart ==
    Started =>
        GetQOSContainersInfo =
            [Guaranteed |-> <<"kubepods">>,
             Burstable  |-> <<"kubepods", "Burstable">>,
             BestEffort |-> <<"kubepods", "BestEffort">>]

\* a pass has failed in phase 2, another goroutine waits for the lock, and
\* the mapping is the one Start stored
C12_Witness ==
    /\ Started
    /\ PassDone
    /\ ret = "err"
    /\ Calls("Update", 2) # {}
    /\ \E p \in Procs : pc[p] = "lock"
    /\ GetQOSContainersInfo = StartInfo(cgroupRoot)

\* ----------------------------------------------------------------------- C14
\* C14: a manager constructed with per-tier enforcement disabled is inert:
\* whatever Start and UpdateCgroups calls were made, no driver operation was
\* issued and none is in flight, no calculator or accessor ran, the loop was
\* not started, the mutex was never taken, Start and UpdateCgroups returned
\* nothing but nil, and GetQOSContainersInfo is the zero-value mapping.
C14_NoopInert ==
    ~cgroupsPerQOS =>
        /\ log = <<>>
        /\ inflight = 0
        /\ ran = {}
        /\ lastPods = Nil
        /\ nodeAllocatable = Nil
        /\ ~loopStarted
        /\ ~accessors
        /\ ~locked
        /\ \A p \in Procs : pc[p] = "idle"
        /\ startRet \in {"none", "nil"}
        /\ ret \in {"none", "nil"}
        /\ GetQOSContainersInfo = ZeroInfo
        /\ exists \in InitialTrees

\* enforcement is disabled, Start has returned nil and so has UpdateCgroups
C14_Witness ==
    /\ ~cgroupsPerQOS
    /\ startRet = "nil"
    /\ ret = "nil"
    /\ GetQOSContainersInfo = ZeroInfo
    /\ log = <<>>

\* ----------------------------------------------------------------------- C15
\* C15: a pass whose CPU-share computation failed on a Burstable pod whose
\* quantities cannot be determined has returned that error having made no
\* driver call at all (no Update, no GetResourceStats), it ran neither the
\* memory computation nor the retry, so what the driver holds is what the
\* pass found, and the mutex is free again: nobody is inside a pass, and
\* a goroutine blocked on the lock can take it.
C15_CPUFailureLeavesCgroups ==
    CPUFailed =>
        /\ BurstableUndetermined(Val(lastPods))
        /\ ret = "err"
        /\ log = <<>>
        /\ inflight = 0
        /\ ran = {"setCPUCgroupConfig"}
        /\ ~locked
        /\ \A p \in Procs : ~InPass(p)
        /\ \A p \in Procs : pc[p] = "lock" => ENABLED Lock(p)

\* the CPU computation of a pass failed while another goroutine was blocked
\* on the lock
C15_Witness ==
    /\ CPUFailed
    /\ ret = "err"
    /\ log = <<>>
    /\ \E p \in Procs : pc[p] = "lock"

\* ----------------------------------------------------------------------- C16
\* an Update of phase 1 of the latest pass failed
Phase1Failure ==
    \E i \in Calls("Update", 1) : log[i].res = "err"

\* the latest pass has returned, from past its CPU computation
PassCompleted ==
    PassDone /\ "setCPUCgroupConfig" \in ran /\ ~CPUFailed

\* C16: the second round happens only after a failed write of the first, and
\* the usage is read back only when Memory is reserved: a call of phase 2
\* (Update or GetResourceStats) is logged only after both Updates of phase 1
\* returned and one of them failed; a pass whose two Updates of phase 1
\* succeeded made exactly those two calls, one per managed tier, and no
\* GetResourceStats; GetResourceStats is called only if an Update of phase 1
\* failed and Memory is a key of qosReserved; and when an Update of phase 1
\* failed and Memory is not a key, each Update of phase 2 carries the values
\* the Update of phase 1 carried for that tier.
C16_Phase2OnlyAfterFailure ==
    /\ (Calls("Update", 2) \cup Calls("GetResourceStats", 2)) # {} =>
        /\ Phase1Failure
        /\ \A t \in ManagedTiers :
            \E i \in TierCalls("Update", 1, t) : log[i].res # "pending"
    /\ (PassCompleted /\ ~Phase1Failure) =>
        /\ Len(log) = 2
        /\ \A t \in ManagedTiers :
            Cardinality(TierCalls("Update", 1, t)) = 1
        /\ Calls("GetResourceStats", 2) = {}
        /\ ret = "nil"
    /\ Calls("GetResourceStats", 2) # {} =>
        Phase1Failure /\ qosReserved # Nil
    /\ (Phase1Failure /\ qosReserved = Nil) =>
        \A t \in ManagedTiers :
            \A j \in TierCalls("Update", 2, t) :
                \A i \in TierCalls("Update", 1, t) :
                    log[j].params = log[i].params

\* Memory is not reserved, an Update of phase 1 failed, and the pass has
\* repeated both Updates with the values of phase 1, without reading a usage
C16_Witness ==
    /\ PassCompleted
    /\ qosReserved = Nil
    /\ Phase1Failure
    /\ Calls("GetResourceStats", 2) = {}
    /\ \A t \in ManagedTiers :
        \E i \in TierCalls("Update", 1, t), j \in TierCalls("Update", 2, t) :
            log[j].params = log[i].params /\ log[i].params.CpuShares # Nil

\* ----------------------------------------------------------------------- C17
\* C17 as claimed: a pass in which an Update of phase 1 failed has issued a
\* second Update for both managed tiers when it returns, whatever the
\* Updates of phase 2 returned.
C17_AsClaimed ==
    (PassCompleted /\ Phase1Failure) =>
        \A t \in ManagedTiers : TierCalls("Update", 2, t) # {}

\* C17: phase 1 attempts the Update of both tiers, once each, even when the
\* first one attempted fails; in a pass in which an Update of phase 1 failed,
\* phase 2 issues Updates, at most one per tier, up to and including the
\* first that fails: at least one tier gets a second Update, a failed Update
\* of phase 2 is the last call of the pass, and both tiers get a second
\* Update exactly if the first Update of phase 2 succeeded.
C17_Phase2UntilFailure ==
    PassCompleted =>
        /\ \A t \in ManagedTiers : Cardinality(TierCalls("Update", 1, t)) = 1
        /\ Phase1Failure =>
            /\ Calls("Update", 2) # {}
            /\ \A t \in ManagedTiers : Cardinality(TierCalls("Update", 2, t)) <= 1
            /\ \A i \in Calls("Update", 2) : log[i].res = "err" => i = Len(log)
            /\ (\A t \in ManagedTiers : TierCalls("Update", 2, t) # {}) <=>
                    (\E i \in Calls("Update", 2) : i < Len(log) /\ log[i].res = "ok")

\* the first Update of phase 1 failed and the second was still attempted; the
\* first Update of phase 2 failed and the pass returned its error, the other
\* tier having had no second Update
C17_Witness ==
    /\ PassCompleted
    /\ ret = "err"
    /\ Len(log) >= 3
    /\ log[1].op = "Update" /\ log[1].phase = 1 /\ log[1].res = "err"
    /\ log[2].op = "Update" /\ log[2].phase = 1 /\ log[2].name # log[1].name
    /\ Cardinality(Calls("Update", 2)) = 1
    /\ \E t \in ManagedTiers : TierCalls("Update", 2, t) = {}

\* ----------------------------------------------------------------------- C18
\* the paths of the two tiers that have a container of their own
TierPaths ==
    {PathJoin(cgroupRoot, t) : t \in ManagedTiers}

\* C18: the Guaranteed tier is never written: every Create, Update and
\* GetResourceStats call of Start and of the passes names root/Burstable or
\* root/BestEffort; a call that names the root, which is the Guaranteed
\* container, is an Exists and carries no CPU shares and no memory limit;
\* and the configs of a running pass have no entry that names the root.
C18_GuaranteedNeverWritten ==
    /\ \A i \in 1..Len(log) :
        /\ log[i].op \in {"Create", "Update", "GetResourceStats"} =>
            log[i].name \in TierPaths
        /\ log[i].name = cgroupRoot =>
            log[i].op = "Exists" /\ log[i].params = EmptyResourceConfig
    /\ \A p \in Procs : InPass(p) =>
        \A t \in DOMAIN qosConfigs[p] : qosConfigs[p][t].Name \in TierPaths

\* a pass of a started manager has written both tiers in phase 1, retargeted
\* after a failure, and written again: three kinds of driver call were made
\* while the root is the stored Guaranteed path
C18_Witness ==
    /\ qosContainersInfo.Guaranteed = cgroupRoot
    /\ PassCompleted
    /\ Calls("GetResourceStats", 2) # {}
    /\ \A t \in ManagedTiers :
        TierCalls("Update", 1, t) # {} /\ TierCalls("Update", 2, t) # {}

\* ----------------------------------------------------------------------- C19
\* the GetResourceStats calls of the latest pass that returned an error
FailedStats ==
    {i \in Calls("GetResourceStats", 2) : log[i].res = "err"}

\* the tier was not retargeted: its usage was not read, or the read failed
Unexamined(t) ==
    \A k \in TierCalls("GetResourceStats", 2, t) : log[k].res = "err"

\* C19: a failed read-back does not by itself fail the pass. The failed
\* GetResourceStats is the last one of the pass, so retargeting stops at its
\* tier: every Update of phase 2 for a tier whose usage was not read, or whose
\* read failed, carries the parameters of phase 1, and one for a tier read
\* before the failure carries the target the read-back left for it. The
\* Updates of phase 2 are still issued, and the pass returns an error exactly
\* if one of them failed.
C19_StatsFailureNotFatal ==
    /\ \A i \in FailedStats : \A k \in Calls("GetResourceStats", 2) : k <= i
    /\ FailedStats # {} =>
        \A t \in ManagedTiers :
            \A j \in TierCalls("Update", 2, t) :
                \A i \in TierCalls("Update", 1, t) :
                    /\ log[j].params.CpuShares = log[i].params.CpuShares
                    /\ Unexamined(t) => log[j].params = log[i].params
                    /\ \A k \in TierCalls("GetResourceStats", 2, t) :
                        log[k].res = "ok" =>
                            log[j].params.Memory =
                                Retargeted(log[i].params.Memory, Val(log[k].usage))
    /\ (PassCompleted /\ FailedStats # {}) =>
        /\ Calls("Update", 2) # {}
        /\ ret = "err" <=> \E j \in Calls("Update", 2) : log[j].res = "err"

\* the usage of one tier was read and was over its target, the read of the
\* other failed; phase 2 wrote the first with its usage and the second with
\* its memory target of phase 1, and the pass returned nil
C19_Witness ==
    /\ PassCompleted
    /\ ret = "nil"
    /\ \E t, u \in ManagedTiers :
        /\ t # u
        /\ \E i \in TierCalls("Update", 1, t), k \in TierCalls("GetResourceStats", 2, t),
              j \in TierCalls("Update", 2, t) :
            /\ log[k].res = "ok"
            /\ log[i].params.Memory # Nil
            /\ Val(log[k].usage) > Val(log[i].params.Memory)
            /\ log[j].params.Memory = log[k].usage
        /\ \E i \in TierCalls("Update", 1, u), k \in TierCalls("GetResourceStats", 2, u),
              j \in TierCalls("Update", 2, u) :
            /\ log[k].res = "err"
            /\ log[i].params.Memory # Nil
            /\ log[j].params = log[i].params

\* ----------------------------------------------------------------------- C20
\* the log holds a driver call of Start
BootstrapLogged ==
    \E i \in 1..Len(log) : log[i].phase = 0

\* C20: bootstrap precedes reconciliation. Once the loop is launched Start
\* is through: it returned nil, both tier containers exist, the mapping is
\* populated and the accessors are stored. While Start has not returned, no
\* goroutine is in UpdateCgroups, and the timer goroutine is there only
\* once the loop is launched. A running pass holds configs named
\* root/Burstable and root/BestEffort, which are not empty, and its Updates
\* name them. The driver calls of Start and those of a pass never mix: while
\* a call of Start is in the log, every call in it is one of Start and no pass
\* is running.
C20_BootstrapPrecedesPasses ==
    /\ loopStarted =>
        /\ startPC = "done" /\ startRet = "nil"
        /\ TierPaths \subseteq exists
        /\ qosContainersInfo = StartInfo(cgroupRoot)
        /\ accessors
    /\ startPC # "done" => \A p \in Procs : pc[p] = "idle"
    /\ pc[Timer] # "idle" => loopStarted
    /\ \A p \in Procs : InPass(p) =>
        \A t \in ManagedTiers :
            /\ qosConfigs[p][t].Name = PathJoin(cgroupRoot, t)
            /\ qosConfigs[p][t].Name # <<>>
    /\ \A i \in 1..Len(log) :
        log[i].op = "Update" /\ log[i].phase > 0 =>
            loopStarted /\ log[i].name \in TierPaths
    /\ BootstrapLogged =>
        /\ \A i \in 1..Len(log) : log[i].phase = 0
        /\ \A p \in Procs : ~InPass(p)

\* the timer goroutine is in a pass whose first Update is in flight, naming
\* a tier path, after a Start that created or updated both tiers
C20_Witness ==
    /\ loopStarted
    /\ pc[Timer] = "p1wait"
    /\ Len(log) = 1
    /\ log[1].op = "Update" /\ log[1].phase = 1 /\ log[1].res = "pending"
    /\ log[1].name \in TierPaths
    /\ TierPaths \subseteq exists

\* ----------------------------------------------------------------------- C13
\* C13: the reconciliation never stops and no pass is skipped. Once the loop
\* is launched, from every state on the timer goroutine will again be at the
\* start of a pass, holding the lock, and will again be between two passes:
\* it runs passes for ever, whatever the earlier ones returned. Every pass
\* that has started returns; and every goroutine that waits for the lock,
\* behind a running pass or not, gets it and runs its pass.
C13_LoopNeverStops ==
    /\ loopStarted ~> (pc[Timer] = "cpu")
    /\ loopStarted ~> (pc[Timer] = "idle")
    /\ \A p \in Procs : InPass(p) ~> (pc[p] = "idle")
    /\ \A p \in Procs : (pc[p] = "lock") ~> (pc[p] = "cpu")

\* the timer goroutine waits for the lock behind the running pass of a
\* direct caller
C13_Witness ==
    /\ loopStarted
    /\ pc[Timer] = "lock"
    /\ locked
    /\ \E q \in Callers : InPass(q)
====
